---- MODULE Spec2Model ----
(***************************************************************************)
(* Model of gonb's internal/comms (comms.State, the front-end "comm"       *)
(* channel with its heartbeat) and of internal/jpyexec's named-pipe bridge *)
(* (openPipeReader, pollNamedPipeReader, dispatchDisplayData).             *)
(*                                                                         *)
(* Time is counted in seconds.  The clock itself is not kept: the state    *)
(* holds what the code compares, time.Since(s.LastMsgTime), up to the      *)
(* first value above the threshold.  A time.Sleep(timeout) is over at some *)
(* point after it started; how long it lasts is not kept.  A latch that    *)
(* neither s.HeartbeatPongLatch nor a goroutine's local `latch` refers to  *)
(* any more is forgotten, together with the goroutine that would still     *)
(* trigger it, and its number is used again.  gonbui.UniqueID() is any id  *)
(* that differs from the current one.                                      *)
(*                                                                         *)
(* Of the bridge, the file system is taken to work: the FIFO is there      *)
(* whenever a goroutine is in os.Open or os.OpenFile, and these return no  *)
(* error.  The gob decoder takes a record when it decodes it; what it may  *)
(* have read ahead is not kept.                                            *)
(***************************************************************************)
EXTENDS Integers, Sequences, FiniteSets, TLC

----------------------------------------------------------------------------
(* Bounds of the model.                                                    *)

\* number of goroutines that may be inside sendHeartbeatPingLocked at once
MaxWaiters == 2
\* the records the executed program writes to the pipe, at most
MaxRecords == 2

\* every latch that is referred to has a goroutine inside
\* sendHeartbeatPingLocked, so there are never more latches than goroutines
Latches == 1..MaxWaiters

----------------------------------------------------------------------------
(* Program constants.                                                      *)

HeartbeatPingAddress == "#heartbeat/ping"
HeartbeatPongAddress == "#heartbeat/pong"
\* 1 * time.Second
HeartbeatRequestThreshold == 1
\* time.Since(t) of any t older than the threshold, the zero time.Time included
Stale == HeartbeatRequestThreshold + 1

----------------------------------------------------------------------------
(* JSON values, as the kernel hands them over in map[string]any.           *)

Str(s) == [kind |-> "string", str |-> s]
Num == [kind |-> "number"]
Obj(m) == [kind |-> "map", map |-> m]
EmptyMap == [k \in {} |-> Num]

\* choices of a field in an inbound message: left out, not a string, a string
Absent == "<absent>"
NotStr == "<number>"
Field(k, c) ==
    IF c = Absent THEN EmptyMap
    ELSE IF c = NotStr THEN k :> Num
    ELSE k :> Str(c)

CommIds == {"", "a", "b"}
TargetChoices == {Absent, NotStr, "gonb_comm", "other"}
AddressChoices == {Absent, NotStr, HeartbeatPingAddress, HeartbeatPongAddress, "other"}

\* msg.ComposedMsg().Content of a comm_open
OpenContent(isMap, target, cid) ==
    IF isMap THEN Obj(Field("target_name", target) @@ Field("comm_id", cid))
    ELSE Num

\* msg.ComposedMsg().Content of a comm_msg
MsgContent(isMap, cid, data, address) ==
    IF ~isMap THEN Num
    ELSE Obj(Field("comm_id", cid) @@
             (CASE data = "absent" -> EmptyMap
                [] data = "notmap" -> "data" :> Num
                [] OTHER -> "data" :> Obj(Field("address", address))))

\* getFromJson[string]: key is given split by "/"; value is "" with an error
RECURSIVE getFromJson(_, _)
getFromJson(values, parts) ==
    LET part == Head(parts) IN
    IF part \notin DOMAIN values
    THEN [err |-> TRUE, value |-> ""]
    ELSE LET v == values[part] IN
         IF Len(parts) > 1
         THEN IF v.kind # "map"
              THEN [err |-> TRUE, value |-> ""]
              ELSE getFromJson(v.map, Tail(parts))
         ELSE IF v.kind # "string"
              THEN [err |-> TRUE, value |-> ""]
              ELSE [err |-> FALSE, value |-> v.str]

----------------------------------------------------------------------------
(* State of comms.State, of its callers and of the front-end's clock.      *)

VARIABLES
    \* the fields of comms.State
    \* (sinceLastMsgTime is time.Since(s.LastMsgTime), at most Stale)
    IsWebSocketInstalled, TransientDisplayId, Opened, CommId,
    sinceLastMsgTime, HeartbeatPongLatch,
    \* s.mu at the end of a step: NoOne when free, else the goroutine that
    \* took it again after latch.Wait(), with the public function it runs for
    \* and its locals `latch` and `heartbeat`
    mu,
    \* the latches, and the goroutine that sleeps and then triggers each:
    \* "none" (no such latch), "sleeping" or "done"
    latch, timer,
    \* the goroutines blocked in latch.Wait(): how many there are for each
    \* latch (their local `latch`) and each public function they run for
    waiting,
    \* what this step handed to the kernel (msg.Reply, msg.Publish,
    \* kernel.PublishUpdateDisplayData), in order, and the call that
    \* returned in this step
    out, last,
    \* the latest InstallJavascript calls that were made one right after the
    \* other (time may pass in between), each with recent activity: the last
    \* two of them
    installs,
    \* history: the pings sent for each latch
    pings

commFields == <<IsWebSocketInstalled, TransientDisplayId, Opened, CommId,
                sinceLastMsgTime, HeartbeatPongLatch>>
latchVars == <<latch, timer>>
commVars == <<commFields, mu, latchVars, waiting, out, last, installs,
              pings>>

\* the public functions that reach sendHeartbeatPingLocked
Callers == {"SendHeartbeatAndWait", "InstallJavascript"}
NoOne == [latch |-> 0, who |-> "none", heartbeat |-> FALSE]

\* a call: the function, the error and the heartbeat it returned and, for a
\* message, the field it was ignored for and whether it was sent to this
\* channel (HandleOpen: its target_name is "gonb_comm"; HandleMsg: its
\* comm_id is s.CommId), and for a comm_open that was accepted the comm_id
\* it carried
NoCall ==
    [op |-> "none", err |-> FALSE, hb |-> FALSE, ignored |-> "",
     match |-> FALSE, accepted |-> Absent]
Call(op, err, hb) ==
    [op |-> op, err |-> err, hb |-> hb, ignored |-> "", match |-> FALSE,
     accepted |-> Absent]
Ignored(op, field) ==
    [op |-> op, err |-> FALSE, hb |-> FALSE, ignored |-> field,
     match |-> FALSE, accepted |-> Absent]
To(c, m) == [c EXCEPT !.match = m]
Accepted(c, cid) == [c EXCEPT !.accepted = cid]

\* one message handed to the kernel
Sent(type, cid, data, did) ==
    [type |-> type, comm_id |-> cid, data |-> data, display_id |-> did]

\* what is known of the InstallJavascript call that is inside its heartbeat
\* wait: the s.CommId it found when it called sendHeartbeatPingLocked,
\* whether a comm_open was accepted since, and whether a second
\* InstallJavascript call has been inside with it.  Kept only by ProbeSpec.
VARIABLE probe

NoProbe == [chan |-> Absent, reopened |-> FALSE, shared |-> FALSE]

CommInit ==
    /\ probe = NoProbe
    /\ IsWebSocketInstalled = FALSE
    /\ TransientDisplayId = 0
    /\ Opened = FALSE
    /\ CommId = ""
    /\ sinceLastMsgTime = Stale
    /\ HeartbeatPongLatch = 0
    /\ mu = NoOne
    /\ latch = [l \in Latches |-> [triggered |-> FALSE, value |-> FALSE]]
    /\ timer = [l \in Latches |-> "none"]
    /\ waiting = [l \in Latches |-> [who \in Callers |-> 0]]
    /\ out = <<>>
    /\ last = NoCall
    /\ installs = <<>>
    /\ pings = [l \in Latches |-> 0]

\* common.Latch.Trigger: the first trigger sets the value, later ones are
\* discarded
Trigger(l, v) ==
    IF l.triggered THEN l ELSE [triggered |-> TRUE, value |-> v]

\* the variant of UniqueID that hands out the id it had before
UniqueIDReused(cur) == cur

\* gonbui.UniqueID(): an id other than the one in use (0 stands for "")
UniqueID(cur) == IF cur = 1 THEN 2 ELSE 1

\* the latch a new probe gets: the first number not in use
FreeLatches == {l \in Latches : timer[l] = "none"}
NewLatch == CHOOSE l \in FreeLatches : \A k \in FreeLatches : l <= k

\* the variant of RecentActivity with the comparison the other way round
RecentActivityInverted == sinceLastMsgTime > HeartbeatRequestThreshold

\* the variant of RecentActivity that compares with <
RecentActivityStrict == sinceLastMsgTime < HeartbeatRequestThreshold

\* time.Since(s.LastMsgTime) <= HeartbeatRequestThreshold
RecentActivity == sinceLastMsgTime <= HeartbeatRequestThreshold

\* a call other than an InstallJavascript with recent activity returns
Returns(c) ==
    /\ last' = c
    /\ installs' = <<>>

\* the last inbound activity is at most one second old
ActivityWithinOneSecond == sinceLastMsgTime <= 1

\* InstallJavascript returns; recent tells that it was called with the last
\* activity at most one second old, npub is the number of times it published
ReturnsInstall(err, recent, npub) ==
    LET this == [err |-> err, npub |-> npub] IN
    /\ last' = Call("InstallJavascript", err, FALSE)
    /\ installs' = IF ~recent THEN <<>>
                   ELSE IF Len(installs) = 2 THEN <<installs[2], this>>
                   ELSE Append(installs, this)

\* a step that is no call and no return of a call
NoReturn ==
    /\ out' = <<>>
    /\ last' = NoCall
    /\ installs' = <<>>

----------------------------------------------------------------------------
(* closeLocked and sendLocked, as functions of the fields they read.       *)

\* the variant of closeLocked that returns the error of the Reply before it
\* clears the fields
closeLockedUnlessError(opened, commId, installed, replyOk) ==
    IF ~opened \/ ~replyOk
    THEN [Opened |-> opened, CommId |-> commId, Installed |-> installed,
          out |-> IF opened THEN <<Sent("comm_close", commId, "", 0)>>
                  ELSE <<>>,
          err |-> opened /\ ~replyOk]
    ELSE [Opened |-> FALSE, CommId |-> "", Installed |-> FALSE,
          out |-> <<Sent("comm_close", commId, "", 0)>>,
          err |-> FALSE]

closeLocked(opened, commId, installed, replyOk) ==
    IF ~opened
    THEN [Opened |-> opened, CommId |-> commId, Installed |-> installed,
          out |-> <<>>, err |-> FALSE]
    ELSE [Opened |-> FALSE, CommId |-> "", Installed |-> FALSE,
          out |-> <<Sent("comm_close", commId, "", 0)>>,
          err |-> ~replyOk]

sendLocked(commId, data, publishOk) ==
    [out |-> <<Sent("comm_msg", commId, data, 0)>>,
     err |-> ~publishOk]

----------------------------------------------------------------------------
(* The entry points that run from Lock to Unlock without waiting.           *)

\* the variant of AckCommId that acknowledges before s.CommId is assigned
AckCommIdStored(stored, new) == stored

\* the comm_id of the "comm_open_ack": sendLocked reads s.CommId, which
\* HandleOpen has assigned from the message just before
AckCommId(stored, new) == new

\* the variant of ForUs that takes any target name
ForUsAnyTarget(targetName) == ~targetName.err

\* the test of HandleOpen on "target_name": `err != nil || targetName !=
\* "gonb_comm"` ignores the message
ForUs(targetName) == ~targetName.err /\ targetName.value = "gonb_comm"

\* HandleOpen(msg): the comm_open handler
HandleOpen(isMap, target, cid, replyOk, eraseOk, ackOk) ==
    LET content == OpenContent(isMap, target, cid)
        toUs == isMap /\ target = "gonb_comm"
        ignored(field) == /\ UNCHANGED commFields
                          /\ out' = <<>>
                          /\ Returns(To(Ignored("HandleOpen", field), toUs))
    IN
    /\ mu = NoOne
    /\ UNCHANGED <<mu, latchVars, waiting, pings>>
    /\ IF content.kind # "map"
       THEN ignored("content")
       ELSE LET targetName == getFromJson(content.map, <<"target_name">>) IN
            IF ~ForUs(targetName)
            THEN ignored("target_name")
            ELSE LET commId == getFromJson(content.map, <<"comm_id">>) IN
                 IF commId.err
                 THEN ignored("comm_id")
                 ELSE LET closed == closeLocked(Opened, CommId,
                                                IsWebSocketInstalled, replyOk)
                      IN
                      IF Opened /\ closed.err
                      THEN /\ CommId' = closed.CommId
                           /\ Opened' = closed.Opened
                           /\ IsWebSocketInstalled' = closed.Installed
                           /\ UNCHANGED <<TransientDisplayId, sinceLastMsgTime,
                                          HeartbeatPongLatch>>
                           /\ out' = closed.out
                           /\ Returns(To(Call("HandleOpen", TRUE, FALSE), toUs))
                      ELSE LET ack == sendLocked(AckCommId(closed.CommId,
                                                           commId.value),
                                                 "comm_open_ack", ackOk)
                           IN
                           /\ CommId' = commId.value
                           /\ Opened' = TRUE
                           /\ sinceLastMsgTime' = 0
                           /\ IsWebSocketInstalled' = closed.Installed
                           /\ UNCHANGED <<TransientDisplayId,
                                          HeartbeatPongLatch>>
                           /\ out' = closed.out
                                     \o <<Sent("erase", "", "",
                                               TransientDisplayId)>>
                                     \o ack.out
                           /\ Returns(Accepted(To(Call("HandleOpen", ack.err,
                                                       FALSE), toUs), cid))

\* the variant of IsHeartbeatAddress that routes only the pong address
IsHeartbeatAddressPongOnly(address) == address = HeartbeatPongAddress

\* the switch of HandleMsg: the addresses that reach
\* handleHeartbeatPongLocked
IsHeartbeatAddress(address) ==
    address \in {HeartbeatPongAddress, HeartbeatPingAddress}

\* the variant of SameComm that takes any comm_id
SameCommAny(commId, stored) == ~commId.err

\* the tests of HandleMsg on "comm_id": the message goes on only when the
\* field is a string and equals s.CommId
SameComm(commId, stored) == ~commId.err /\ commId.value = stored

\* HandleMsg(msg): the comm_msg handler, with handleHeartbeatPongLocked
HandleMsg(isMap, cid, data, address) ==
    LET content == MsgContent(isMap, cid, data, address)
        toUs == isMap /\ cid = CommId
        ignored(field) == /\ UNCHANGED <<commFields, latch>>
                          /\ Returns(To(Ignored("HandleMsg", field), toUs))
    IN
    /\ mu = NoOne
    /\ out' = <<>>
    /\ UNCHANGED <<mu, timer, waiting, pings>>
    /\ IF content.kind # "map"
       THEN ignored("content")
       ELSE LET commId == getFromJson(content.map, <<"comm_id">>) IN
            IF ~SameComm(commId, CommId)
            THEN ignored("comm_id")
            ELSE LET addr == getFromJson(content.map, <<"data", "address">>)
                 IN
                 /\ sinceLastMsgTime' = 0
                 /\ UNCHANGED <<IsWebSocketInstalled, TransientDisplayId,
                                Opened, CommId, HeartbeatPongLatch>>
                 /\ IF addr.err
                    THEN /\ Returns(To(Ignored("HandleMsg", "address"),
                                       toUs))
                         /\ UNCHANGED latch
                    ELSE /\ Returns(To(Call("HandleMsg", FALSE, FALSE),
                                       toUs))
                         /\ IF IsHeartbeatAddress(addr.value)
                               /\ HeartbeatPongLatch # 0
                            THEN latch' = [latch EXCEPT
                                             ![HeartbeatPongLatch] =
                                                 Trigger(@, TRUE)]
                            ELSE UNCHANGED latch

\* Close(msg)
Close(replyOk) ==
    LET closed == closeLocked(Opened, CommId, IsWebSocketInstalled, replyOk)
    IN
    /\ mu = NoOne
    /\ CommId' = closed.CommId
    /\ Opened' = closed.Opened
    /\ IsWebSocketInstalled' = closed.Installed
    /\ out' = closed.out
    /\ Returns(Call("Close", closed.err, FALSE))
    /\ UNCHANGED <<TransientDisplayId, sinceLastMsgTime, HeartbeatPongLatch,
                   mu, latchVars, waiting, pings>>

----------------------------------------------------------------------------
(* The heartbeat: sendHeartbeatPingLocked and its two callers.             *)

\* goroutines blocked in latch.Wait() of latch l
Waiters(l) ==
    waiting[l]["SendHeartbeatAndWait"] + waiting[l]["InstallJavascript"]

\* goroutines inside sendHeartbeatPingLocked
Inside ==
    LET RECURSIVE sum(_)
        sum(l) == IF l = 0 THEN 0 ELSE Waiters(l) + sum(l - 1)
    IN sum(MaxWaiters) + (IF mu = NoOne THEN 0 ELSE 1)

\* the variant of NeedsPing that pings for every call
NeedsPingAlways(cur) == TRUE

\* the test `s.HeartbeatPongLatch != nil` of sendHeartbeatPingLocked: a ping
\* is sent and a latch created only when none is set
NeedsPing(cur) == cur = 0

\* the variant of MuWhileWaiting in which the goroutine keeps s.mu while it
\* is blocked in latch.Wait()
MuWhileWaitingHeld(l, who) ==
    [latch |-> l, who |-> who, heartbeat |-> FALSE]

\* s.mu at the time goroutine who blocks in latch.Wait() on latch l: the
\* `s.mu.Unlock()` just before the wait has released it
MuWhileWaiting(l, who) == NoOne

\* sendHeartbeatPingLocked up to and including the Unlock before latch.Wait()
\* (or up to its error return, which keeps s.mu until the deferred Unlock of
\* the caller); who is the public function it runs for
sendHeartbeatPingLocked(who, sendOk) ==
    IF ~NeedsPing(HeartbeatPongLatch)
    THEN /\ Inside < MaxWaiters
         /\ waiting' = [waiting EXCEPT ![HeartbeatPongLatch][who] = @ + 1]
         /\ mu' = MuWhileWaiting(HeartbeatPongLatch, who)
         /\ out' = <<>>
         /\ Returns(Call("wait", FALSE, FALSE))
         /\ UNCHANGED <<HeartbeatPongLatch, latchVars, pings>>
    ELSE LET ping == sendLocked(CommId, HeartbeatPingAddress, sendOk) IN
         /\ out' = ping.out
         /\ IF ping.err
            THEN /\ mu' = NoOne
                 /\ Returns(Call(who, TRUE, FALSE))
                 /\ UNCHANGED <<HeartbeatPongLatch, latchVars, pings, waiting>>
            ELSE /\ FreeLatches # {}
                 /\ Inside < MaxWaiters
                 /\ HeartbeatPongLatch' = NewLatch
                 /\ timer' = [timer EXCEPT ![NewLatch] = "sleeping"]
                 /\ pings' = [pings EXCEPT ![NewLatch] = 1]
                 /\ waiting' = [waiting EXCEPT ![NewLatch][who] = @ + 1]
                 /\ mu' = MuWhileWaiting(NewLatch, who)
                 /\ Returns(Call("wait", FALSE, FALSE))
                 /\ UNCHANGED latch

\* SendHeartbeatAndWait(msg, timeout), until it waits or fails to send
SendHeartbeatAndWait(sendOk) ==
    /\ mu = NoOne
    /\ sendHeartbeatPingLocked("SendHeartbeatAndWait", sendOk)
    /\ UNCHANGED <<IsWebSocketInstalled, TransientDisplayId, Opened, CommId,
                   sinceLastMsgTime>>

\* the tail of InstallJavascript: the reset of a stale connection (when
\* reached through the `if s.IsWebSocketInstalled` block) and the publish of
\* the javascript under a new display id
Reinstall(reset, pubOk, recent) ==
    /\ CommId' = IF reset THEN "" ELSE CommId
    /\ Opened' = IF reset THEN FALSE ELSE Opened
    /\ TransientDisplayId' = UniqueID(TransientDisplayId)
    /\ out' = <<Sent("bootstrap", "", "", UniqueID(TransientDisplayId))>>
    /\ IsWebSocketInstalled' =
           IF pubOk THEN TRUE
           ELSE IF reset THEN FALSE ELSE IsWebSocketInstalled
    /\ ReturnsInstall(~pubOk, recent, 1)

\* InstallJavascript(msg), until it returns or waits for the heartbeat
InstallJavascript(pubOk, sendOk) ==
    /\ mu = NoOne
    /\ UNCHANGED sinceLastMsgTime
    /\ IF IsWebSocketInstalled /\ RecentActivity
       THEN /\ out' = <<>>
            /\ ReturnsInstall(FALSE, ActivityWithinOneSecond, 0)
            /\ UNCHANGED <<IsWebSocketInstalled, TransientDisplayId, Opened,
                           CommId, HeartbeatPongLatch, latchVars, waiting,
                           pings, mu>>
       ELSE IF IsWebSocketInstalled /\ CommId # "" /\ Opened
            THEN /\ sendHeartbeatPingLocked("InstallJavascript", sendOk)
                 /\ UNCHANGED <<IsWebSocketInstalled, TransientDisplayId,
                                Opened, CommId>>
            ELSE /\ Reinstall(IsWebSocketInstalled, pubOk,
                           ActivityWithinOneSecond)
                 /\ UNCHANGED <<HeartbeatPongLatch, latchVars, waiting,
                                pings, mu>>

\* latch.Wait() returns the latch's value to one of the goroutines blocked
\* on latch l, and that goroutine takes s.mu again
WaitReturn(l, who) ==
    /\ waiting[l][who] > 0
    /\ latch[l].triggered
    /\ mu = NoOne
    /\ mu' = [latch |-> l, who |-> who, heartbeat |-> latch[l].value]
    /\ waiting' = [waiting EXCEPT ![l][who] = @ - 1]
    /\ NoReturn
    /\ UNCHANGED <<commFields, latchVars, pings>>

\* the variant of ClearsLatch that clears whatever latch is set
ClearsLatchAlways(cur, l) == TRUE

\* the variant of ClearsLatch that never clears
ClearsLatchNever(cur, l) == FALSE

\* the test `s.HeartbeatPongLatch == latch` before the latch is cleared
ClearsLatch(cur, l) == cur = l

\* a latch without its record: its number is free again
NoLatch == [triggered |-> FALSE, value |-> FALSE]

\* the rest of sendHeartbeatPingLocked after the Lock, the rest of its
\* caller, and the deferred Unlock; the latch is forgotten when this was its
\* last reference
Resume(pubOk) ==
    LET l == mu.latch
        cur == IF ClearsLatch(HeartbeatPongLatch, l) THEN 0
               ELSE HeartbeatPongLatch
        forget == Waiters(l) = 0 /\ cur # l
    IN
    /\ mu # NoOne
    /\ mu' = NoOne
    /\ HeartbeatPongLatch' = cur
    /\ latch' = IF forget THEN [latch EXCEPT ![l] = NoLatch] ELSE latch
    /\ timer' = IF forget THEN [timer EXCEPT ![l] = "none"] ELSE timer
    /\ pings' = IF forget THEN [pings EXCEPT ![l] = 0] ELSE pings
    /\ UNCHANGED <<sinceLastMsgTime, waiting>>
    /\ IF mu.who = "SendHeartbeatAndWait" \/ mu.heartbeat
       THEN /\ out' = <<>>
            /\ Returns(Call(mu.who, FALSE, mu.heartbeat))
            /\ UNCHANGED <<IsWebSocketInstalled, TransientDisplayId, Opened,
                           CommId>>
       ELSE Reinstall(TRUE, pubOk, FALSE)

\* the goroutine of sendHeartbeatPingLocked: time.Sleep(timeout) is over and
\* it triggers the latch
TimerFire(l) ==
    /\ timer[l] = "sleeping"
    /\ timer' = [timer EXCEPT ![l] = "done"]
    /\ latch' = [latch EXCEPT ![l] = Trigger(@, FALSE)]
    /\ NoReturn
    /\ UNCHANGED <<commFields, mu, waiting, pings>>

\* a second passes
Tick ==
    /\ sinceLastMsgTime < Stale
    /\ sinceLastMsgTime' = sinceLastMsgTime + 1
    /\ out' = <<>>
    /\ last' = NoCall
    /\ UNCHANGED installs
    /\ UNCHANGED <<IsWebSocketInstalled, TransientDisplayId, Opened, CommId,
                   HeartbeatPongLatch, mu, latchVars, waiting, pings>>

----------------------------------------------------------------------------
(* The named-pipe bridge of jpyexec: openPipeReader with its two           *)
(* goroutines, pollNamedPipeReader and the dispatch functions.  The        *)
(* executed program and the end of its execution are the environment.      *)

\* what the executed program writes to $GONB_PIPE: a protocol.DisplayData
\* to display (DisplayID empty or not), one with an InputRequest, one that
\* has the MIMEJupyterInput key without an InputRequest, and bytes that gob
\* cannot decode
Display(id) == [kind |-> "display", DisplayID |-> id]
InputRequest == [kind |-> "input", DisplayID |-> ""]
InputWithoutRequest == [kind |-> "badinput", DisplayID |-> ""]
Garbage == [kind |-> "garbage", DisplayID |-> ""]
DisplayRecords == {Display(""), Display("id")}
Records == DisplayRecords \cup {InputRequest, InputWithoutRequest, Garbage}

VARIABLES
    \* exec.doneChan is closed; exec.isDone; isDone was set while the
    \* goroutines of openPipeReader were already running
    doneChan, isDone, raced,
    \* the FIFO at exec.namedPipeReaderPath exists
    fifo,
    \* the locals of openPipeReader: who holds muFifo ("free" when no one),
    \* and the flag
    muFifo, fifoOpenedForReading,
    \* where the cleanup goroutine, the reader goroutine and
    \* pollNamedPipeReader are; poll is "none" before it starts and "eof",
    \* "closed" or "error" after its loop returned
    cleanup, reader, poll,
    \* exec.pipeReader: "nil", "open" or "closed"
    pipeReader,
    \* the write ends: the executed program's ("idle" before it opens) and
    \* the cleanup goroutine's `w`
    child, w,
    \* all records written to the FIFO, and how many of them were decoded
    written, nread,
    \* the calls the decode loop made to the kernel, in order, and the
    \* number of reportCellError calls
    dispatched, reported,
    \* the os.Remove calls on the FIFO, in order: who called, whether the
    \* file was there, and where the decode loop was
    removes

pipeVars == <<doneChan, isDone, raced, fifo, muFifo, fifoOpenedForReading,
              cleanup, reader, poll, pipeReader, child, w, written, nread,
              dispatched, reported, removes>>

vars == <<commVars, pipeVars, probe>>

\* openPipeReader has started its goroutines; the program has not run
PipeIdle ==
    /\ fifo = TRUE
    /\ muFifo = "free"
    /\ fifoOpenedForReading = FALSE
    /\ cleanup = "waitDone"
    /\ reader = "start"
    /\ poll = "none"
    /\ pipeReader = "nil"
    /\ child = "idle"
    /\ w = "none"
    /\ written = <<>>
    /\ nread = 0
    /\ dispatched = <<>>
    /\ reported = 0
    /\ removes = <<>>
    /\ raced = FALSE

\* the execution may be over before openPipeReader is called
PipeInit ==
    /\ PipeIdle
    /\ doneChan \in BOOLEAN
    /\ isDone = doneChan

\* the decode loop has returned
LoopEnded == poll \in {"eof", "closed", "error"}

\* some process has the FIFO open for writing
WriterAttached == child = "open" \/ w = "open"

\* os.Remove(exec.namedPipeReaderPath); its error is discarded
Remove(who) ==
    /\ removes' = Append(removes, [by |-> who, effective |-> fifo,
                                   loopEnded |-> LoopEnded,
                                   done |-> doneChan])
    /\ fifo' = FALSE

\* the execution ends: isDone is set and doneChan is closed, once; the
\* program's file descriptors are closed with it
Done ==
    /\ ~doneChan
    /\ doneChan' = TRUE
    /\ isDone' = TRUE
    /\ raced' = TRUE
    /\ child' = IF child = "open" THEN "closed" ELSE child
    /\ UNCHANGED <<fifo, muFifo, fifoOpenedForReading, cleanup, reader, poll,
                   pipeReader, w, written, nread, dispatched, reported,
                   removes>>

\* an open of the FIFO for writing returns: the read end is open, or the
\* reader goroutine is blocked in os.Open and returns with it
ReadEndOpen == pipeReader = "open"
ReaderInOpen == reader = "open"
CanOpenForWriting == fifo /\ (ReadEndOpen \/ ReaderInOpen)

\* os.Open of the reader goroutine returns together with the open for
\* writing that it waited for
OpenReturns ==
    IF ReaderInOpen
    THEN reader' = "lock" /\ pipeReader' = "open"
    ELSE UNCHANGED <<reader, pipeReader>>

\* the executed program opens $GONB_PIPE for writing
ChildOpen ==
    /\ child = "idle"
    /\ ~doneChan
    /\ CanOpenForWriting
    /\ child' = "open"
    /\ OpenReturns
    /\ UNCHANGED <<doneChan, isDone, raced, fifo, muFifo,
                   fifoOpenedForReading, cleanup, poll, w, written, nread,
                   dispatched, reported, removes>>

\* the executed program writes one record
ChildWrite(rec) ==
    /\ child = "open"
    /\ ReadEndOpen
    /\ Len(written) < MaxRecords
    /\ written' = Append(written, rec)
    /\ UNCHANGED <<doneChan, isDone, raced, fifo, muFifo,
                   fifoOpenedForReading, cleanup, reader, poll, pipeReader,
                   child, w, nread, dispatched, reported, removes>>

\* the executed program closes its end
ChildClose ==
    /\ child = "open"
    /\ child' = "closed"
    /\ UNCHANGED <<doneChan, isDone, raced, fifo, muFifo,
                   fifoOpenedForReading, cleanup, reader, poll, pipeReader,
                   w, written, nread, dispatched, reported, removes>>

\* the variant of DoneReceived that does not wait for doneChan
DoneReceivedAtOnce == TRUE

\* `<-exec.doneChan` returns
DoneReceived == doneChan

\* the cleanup goroutine: `<-exec.doneChan`, muFifo.Lock() and the test of
\* the flag
CleanupLock ==
    /\ cleanup = "waitDone"
    /\ DoneReceived
    /\ muFifo = "free"
    /\ muFifo' = "cleanup"
    /\ cleanup' = IF fifoOpenedForReading THEN "unlock" ELSE "openW"
    /\ UNCHANGED <<doneChan, isDone, raced, fifo, fifoOpenedForReading,
                   reader, poll, pipeReader, child, w, written, nread,
                   dispatched, reported, removes>>

\* the cleanup goroutine: os.OpenFile(path, O_WRONLY) returns.  The FIFO is
\* there whenever the goroutine is in this call, so that err is nil.
CleanupOpenW ==
    /\ cleanup = "openW"
    /\ CanOpenForWriting
    /\ w' = "open"
    /\ OpenReturns
    /\ cleanup' = "closeW"
    /\ UNCHANGED <<doneChan, isDone, raced, fifo, muFifo,
                   fifoOpenedForReading, poll, child, written, nread,
                   dispatched, reported, removes>>

\* the cleanup goroutine: w.Close()
CleanupCloseW ==
    /\ cleanup = "closeW"
    /\ w' = "closed"
    /\ cleanup' = "unlock"
    /\ UNCHANGED <<doneChan, isDone, raced, fifo, muFifo,
                   fifoOpenedForReading, reader, poll, pipeReader, child,
                   written, nread, dispatched, reported, removes>>

\* the cleanup goroutine: muFifo.Unlock()
CleanupUnlock ==
    /\ cleanup = "unlock"
    /\ muFifo' = "free"
    /\ cleanup' = "remove"
    /\ UNCHANGED <<doneChan, isDone, raced, fifo, fifoOpenedForReading,
                   reader, poll, pipeReader, child, w, written, nread,
                   dispatched, reported, removes>>

\* the cleanup goroutine: os.Remove, and the goroutine ends
CleanupRemove ==
    /\ cleanup = "remove"
    /\ Remove("cleanup")
    /\ cleanup' = "end"
    /\ UNCHANGED <<doneChan, isDone, raced, muFifo, fifoOpenedForReading,
                   reader, poll, pipeReader, child, w, written, nread,
                   dispatched, reported>>

\* the values the unsynchronized read of exec.isDone may give: the one set
\* before the goroutine started, either one when it is set meanwhile
IsDoneRead == IF isDone /\ raced THEN BOOLEAN ELSE {isDone}

\* the reader goroutine: `if exec.isDone { return }`, else it calls os.Open,
\* which blocks.  The FIFO is there whenever the goroutine is in os.Open, so
\* that err is nil when it returns.
ReaderStart ==
    /\ reader = "start"
    /\ \E seen \in IsDoneRead : reader' = IF seen THEN "end" ELSE "open"
    /\ UNCHANGED <<doneChan, isDone, raced, fifo, muFifo,
                   fifoOpenedForReading, cleanup, poll, pipeReader, child, w,
                   written, nread, dispatched, reported, removes>>

\* the reader goroutine: muFifo.Lock(), the flag is set, and
\* `go exec.pollNamedPipeReader()`; the Unlock is deferred
ReaderLock ==
    /\ reader = "lock"
    /\ muFifo = "free"
    /\ muFifo' = "reader"
    /\ fifoOpenedForReading' = TRUE
    /\ poll' = "decode"
    /\ reader' = "waitDone"
    /\ UNCHANGED <<doneChan, isDone, raced, fifo, cleanup, pipeReader, child,
                   w, written, nread, dispatched, reported, removes>>

\* the reader goroutine: `<-exec.doneChan` and exec.pipeReader.Close()
ReaderClose ==
    /\ reader = "waitDone"
    /\ DoneReceived
    /\ pipeReader' = "closed"
    /\ reader' = "remove"
    /\ UNCHANGED <<doneChan, isDone, raced, fifo, muFifo,
                   fifoOpenedForReading, cleanup, poll, child, w, written,
                   nread, dispatched, reported, removes>>

\* the reader goroutine: os.Remove, then the deferred muFifo.Unlock()
ReaderRemove ==
    /\ reader = "remove"
    /\ Remove("reader")
    /\ muFifo' = "free"
    /\ reader' = "end"
    /\ UNCHANGED <<doneChan, isDone, raced, fifoOpenedForReading, cleanup,
                   poll, pipeReader, child, w, written, nread, dispatched,
                   reported>>

\* the variant of DisplayCall that never updates in place
DisplayCallAlwaysNew(data) == "PublishData"

\* dispatchDisplayData: the kernel function it calls
DisplayCall(data) ==
    IF data.DisplayID # "" THEN "PublishUpdateDisplayData" ELSE "PublishData"

\* one call to the kernel by the decode loop
Dispatch(call, id, ok) == [call |-> call, DisplayID |-> id, ok |-> ok]

\* what decoder.Decode gives: os.ErrClosed after exec.pipeReader.Close(),
\* else the next record, else io.EOF when no write end is open; else it
\* blocks
Decode ==
    IF pipeReader = "closed" THEN [err |-> "closed"]
    ELSE IF nread < Len(written)
         THEN IF written[nread + 1] = Garbage
              THEN [err |-> "parse"]
              ELSE [err |-> "", data |-> written[nread + 1]]
         ELSE IF ~WriterAttached THEN [err |-> "eof"]
              ELSE [err |-> "blocked"]

\* pollNamedPipeReader: one turn of its loop, with dispatchDisplayData,
\* dispatchInputRequest and reportCellError; callOk is the outcome of the
\* kernel's publish or prompt
PollStep(callOk) ==
    LET got == Decode IN
    /\ poll = "decode"
    /\ got.err # "blocked"
    /\ IF got.err # ""
       THEN /\ poll' = IF got.err = "parse" THEN "error" ELSE got.err
            /\ nread' = IF got.err = "parse" THEN nread + 1 ELSE nread
            /\ UNCHANGED <<dispatched, reported>>
       ELSE /\ poll' = poll
            /\ nread' = nread + 1
            /\ CASE got.data.kind = "badinput" ->
                      /\ reported' = reported + 1
                      /\ UNCHANGED dispatched
                 [] got.data.kind = "input" ->
                      /\ dispatched' =
                             Append(dispatched,
                                    Dispatch("PromptInput", "", callOk))
                      /\ reported' = IF callOk THEN reported
                                     ELSE reported + 1
                 [] OTHER ->
                      /\ dispatched' =
                             Append(dispatched,
                                    Dispatch(DisplayCall(got.data),
                                             got.data.DisplayID, callOk))
                      /\ UNCHANGED reported
    /\ UNCHANGED <<doneChan, isDone, raced, fifo, muFifo,
                   fifoOpenedForReading, cleanup, reader, pipeReader, child,
                   w, written, removes>>

----------------------------------------------------------------------------
(* The specifications.                                                     *)

\* the inbound messages: every combination of fields that the handlers tell
\* apart, and the outcomes of the kernel calls an accepted comm_open makes
OpenInputs ==
    {<<FALSE, Absent, Absent, TRUE, TRUE, TRUE>>}
    \cup {<<TRUE, t, c, TRUE, TRUE, TRUE>> :
              t \in TargetChoices \ {"gonb_comm"}, c \in {Absent, "a"}}
    \cup {<<TRUE, "gonb_comm", c, TRUE, TRUE, TRUE>> : c \in {Absent, NotStr}}
    \cup {<<TRUE, "gonb_comm", c, oks[1], oks[2], oks[3]>> :
              c \in CommIds,
              oks \in {<<TRUE, TRUE, TRUE>>, <<FALSE, TRUE, TRUE>>,
                       <<TRUE, FALSE, TRUE>>, <<TRUE, TRUE, FALSE>>,
                       <<TRUE, FALSE, FALSE>>}}
MsgInputs ==
    {<<FALSE, Absent, "absent", Absent>>}
    \cup {<<TRUE, c, "absent", Absent>> : c \in {Absent, NotStr}}
    \cup {<<TRUE, c, d, Absent>> : c \in CommIds, d \in {"absent", "notmap"}}
    \cup {<<TRUE, c, "map", a>> : c \in CommIds, a \in AddressChoices}

\* the comm channel; no program is executed
Init == CommInit /\ PipeIdle /\ doneChan = FALSE /\ isDone = FALSE

Next ==
    \/ \E i \in OpenInputs :
           HandleOpen(i[1], i[2], i[3], i[4], i[5], i[6])
           /\ UNCHANGED <<pipeVars, probe>>
    \/ \E i \in MsgInputs :
           HandleMsg(i[1], i[2], i[3], i[4]) /\ UNCHANGED <<pipeVars, probe>>
    \/ \E replyOk \in BOOLEAN : Close(replyOk) /\ UNCHANGED <<pipeVars, probe>>
    \/ \E sendOk \in BOOLEAN :
           SendHeartbeatAndWait(sendOk) /\ UNCHANGED <<pipeVars, probe>>
    \/ \E pubOk, sendOk \in BOOLEAN :
           InstallJavascript(pubOk, sendOk) /\ UNCHANGED <<pipeVars, probe>>
    \/ \E l \in Latches, who \in Callers :
           WaitReturn(l, who) /\ UNCHANGED <<pipeVars, probe>>
    \/ \E pubOk \in BOOLEAN : Resume(pubOk) /\ UNCHANGED <<pipeVars, probe>>
    \/ \E l \in Latches : TimerFire(l) /\ UNCHANGED <<pipeVars, probe>>
    \/ Tick /\ UNCHANGED <<pipeVars, probe>>

Spec == Init /\ [][Next]_vars

\* the named-pipe bridge; the comm channel is left alone
PipeNext ==
    \/ Done /\ UNCHANGED <<commVars, probe>>
    \/ ChildOpen /\ UNCHANGED <<commVars, probe>>
    \/ \E rec \in Records : ChildWrite(rec) /\ UNCHANGED <<commVars, probe>>
    \/ ChildClose /\ UNCHANGED <<commVars, probe>>
    \/ CleanupLock /\ UNCHANGED <<commVars, probe>>
    \/ CleanupOpenW /\ UNCHANGED <<commVars, probe>>
    \/ CleanupCloseW /\ UNCHANGED <<commVars, probe>>
    \/ CleanupUnlock /\ UNCHANGED <<commVars, probe>>
    \/ CleanupRemove /\ UNCHANGED <<commVars, probe>>
    \/ ReaderStart /\ UNCHANGED <<commVars, probe>>
    \/ ReaderLock /\ UNCHANGED <<commVars, probe>>
    \/ ReaderClose /\ UNCHANGED <<commVars, probe>>
    \/ ReaderRemove /\ UNCHANGED <<commVars, probe>>
    \/ \E callOk \in BOOLEAN : PollStep(callOk) /\ UNCHANGED <<commVars, probe>>

InitPipe == CommInit /\ PipeInit
PipeSpec == InitPipe /\ [][PipeNext]_vars

\* the steps of each goroutine of the bridge
CleanupNext ==
    CleanupLock \/ CleanupOpenW \/ CleanupCloseW \/ CleanupUnlock
    \/ CleanupRemove
ReaderNext == ReaderStart \/ ReaderLock \/ ReaderClose \/ ReaderRemove
PollNext == \E callOk \in BOOLEAN : PollStep(callOk)

\* the Go scheduler runs every goroutine that can take a step; nothing is
\* required of the executed program
FairPipeSpec ==
    /\ PipeSpec
    /\ WF_vars(CleanupNext /\ UNCHANGED <<commVars, probe>>)
    /\ WF_vars(ReaderNext /\ UNCHANGED <<commVars, probe>>)
    /\ WF_vars(PollNext /\ UNCHANGED <<commVars, probe>>)

\* the same calls, with the inbound messages that the heartbeat tells apart:
\* a comm_open that is accepted, and comm_msg with the pong address or with
\* another address, for the stored comm_id or for another one
HeartbeatOpenInputs == {<<TRUE, "gonb_comm", "a", TRUE, TRUE, TRUE>>}
HeartbeatMsgInputs ==
    {<<TRUE, c, "map", a>> : c \in {"a", "b"},
                             a \in {HeartbeatPongAddress, "other"}}

HeartbeatNext ==
    \/ \E i \in HeartbeatOpenInputs :
           HandleOpen(i[1], i[2], i[3], i[4], i[5], i[6])
           /\ UNCHANGED <<pipeVars, probe>>
    \/ \E i \in HeartbeatMsgInputs :
           HandleMsg(i[1], i[2], i[3], i[4]) /\ UNCHANGED <<pipeVars, probe>>
    \/ \E replyOk \in BOOLEAN : Close(replyOk) /\ UNCHANGED <<pipeVars, probe>>
    \/ \E sendOk \in BOOLEAN :
           SendHeartbeatAndWait(sendOk) /\ UNCHANGED <<pipeVars, probe>>
    \/ \E pubOk, sendOk \in BOOLEAN :
           InstallJavascript(pubOk, sendOk) /\ UNCHANGED <<pipeVars, probe>>
    \/ \E l \in Latches, who \in Callers :
           WaitReturn(l, who) /\ UNCHANGED <<pipeVars, probe>>
    \/ \E pubOk \in BOOLEAN : Resume(pubOk) /\ UNCHANGED <<pipeVars, probe>>
    \/ \E l \in Latches : TimerFire(l) /\ UNCHANGED <<pipeVars, probe>>
    \/ Tick /\ UNCHANGED <<pipeVars, probe>>

\* what the scheduler guarantees: a sleep ends, a goroutine whose latch is
\* triggered gets the mutex at some point (sync.Mutex hands the lock to a
\* starving waiter), and a goroutine that holds the mutex runs on
FairSpec ==
    /\ Init /\ [][HeartbeatNext]_vars
    /\ \A l \in Latches : WF_commVars(TimerFire(l))
    /\ \A l \in Latches, who \in Callers : SF_commVars(WaitReturn(l, who))
    /\ WF_commVars(\E pubOk \in BOOLEAN : Resume(pubOk))

\* the InstallJavascript calls inside sendHeartbeatPingLocked: those blocked
\* in latch.Wait() and the one that has taken s.mu again
InstallsInside ==
    LET RECURSIVE sum(_)
        sum(l) == IF l = 0 THEN 0
                  ELSE waiting[l]["InstallJavascript"] + sum(l - 1)
    IN sum(MaxWaiters) + (IF mu.who = "InstallJavascript" THEN 1 ELSE 0)

\* probe over one step of the channel: an InstallJavascript call that
\* starts to wait while no other one is inside notes the s.CommId it found;
\* one that starts while another is inside makes the note shared; a
\* comm_open accepted meanwhile is noted; the note ends with the last call
TrackProbe ==
    probe' = IF InstallsInside' > InstallsInside
             THEN IF InstallsInside = 0
                  THEN [chan |-> CommId, reopened |-> FALSE,
                        shared |-> FALSE]
                  ELSE [probe EXCEPT !.shared = TRUE]
             ELSE IF InstallsInside' = 0
             THEN NoProbe
             ELSE IF last'.op = "HandleOpen" /\ last'.accepted # Absent
             THEN [probe EXCEPT !.reopened = TRUE]
             ELSE probe

\* the comm_open messages that are accepted, for two channels
ProbeOpenInputs ==
    {<<TRUE, "gonb_comm", c, TRUE, TRUE, TRUE>> : c \in {"a", "b"}}

\* the calls of HeartbeatNext, with comm_open for two channels and with
\* probe kept
ProbeNext ==
    \/ \E i \in ProbeOpenInputs :
           HandleOpen(i[1], i[2], i[3], i[4], i[5], i[6])
           /\ UNCHANGED pipeVars /\ TrackProbe
    \/ \E i \in HeartbeatMsgInputs :
           HandleMsg(i[1], i[2], i[3], i[4])
           /\ UNCHANGED pipeVars /\ TrackProbe
    \/ \E replyOk \in BOOLEAN :
           Close(replyOk) /\ UNCHANGED pipeVars /\ TrackProbe
    \/ \E sendOk \in BOOLEAN :
           SendHeartbeatAndWait(sendOk) /\ UNCHANGED pipeVars /\ TrackProbe
    \/ \E pubOk, sendOk \in BOOLEAN :
           InstallJavascript(pubOk, sendOk)
           /\ UNCHANGED pipeVars /\ TrackProbe
    \/ \E l \in Latches, who \in Callers :
           WaitReturn(l, who) /\ UNCHANGED pipeVars /\ TrackProbe
    \/ \E pubOk \in BOOLEAN :
           Resume(pubOk) /\ UNCHANGED pipeVars /\ TrackProbe
    \/ \E l \in Latches : TimerFire(l) /\ UNCHANGED pipeVars /\ TrackProbe
    \/ Tick /\ UNCHANGED pipeVars /\ TrackProbe

ProbeSpec == Init /\ [][ProbeNext]_vars

----------------------------------------------------------------------------
(* Properties of the heartbeat.                                            *)

\* an inbound comm_msg with the stored comm_id and one of the two heartbeat
\* addresses is handled in this step
HeartbeatMsgStep ==
    \E a \in {HeartbeatPingAddress, HeartbeatPongAddress} :
        HandleMsg(TRUE, CommId, "map", a)

Resolved(v) == [triggered |-> TRUE, value |-> v]

\* C1: a probe resolves to true when a heartbeat message with the stored
\* comm_id is handled before its timer fires, to false when the timer fires
\* first, and in no other way; once resolved, neither a later heartbeat
\* message nor the timer changes its value, and the value a waiter takes from
\* latch.Wait() is that value.
C1_SingleResolution ==
    /\ [][\A l \in Latches :
            /\ (l = HeartbeatPongLatch /\ ~latch[l].triggered
                /\ HeartbeatMsgStep) => latch'[l] = Resolved(TRUE)
            /\ (~latch[l].triggered /\ TimerFire(l))
                   => latch'[l] = Resolved(FALSE)
            /\ (~latch[l].triggered /\ latch'[l].triggered)
                   => IF latch'[l].value
                      THEN l = HeartbeatPongLatch /\ HeartbeatMsgStep
                      ELSE TimerFire(l)
            /\ (latch[l].triggered /\ timer'[l] # "none")
                   => latch'[l] = latch[l]
            /\ (waiting[l] # waiting'[l] /\ mu' # NoOne)
                   => mu'.latch = l /\ mu'.heartbeat = latch[l].value
          ]_commVars
    /\ [](mu # NoOne => /\ latch[mu.latch].triggered
                        /\ mu.heartbeat = latch[mu.latch].value)

\* C1 witness: a heartbeat message resolved the probe, the timer fired
\* afterwards, and a waiter takes true from the latch
C1_Witness ==
    /\ mu # NoOne
    /\ mu.heartbeat
    /\ timer[mu.latch] = "done"
    /\ latch[mu.latch] = Resolved(TRUE)

\* C2: a SendHeartbeatAndWait call made while a latch is set sends nothing,
\* starts no timer and waits on that latch; every latch has had one ping and
\* one timer; at most one latch is unresolved, the one that is set; and every
\* waiter of a latch returns the latch's one value.
C2_JoinOutstandingProbe ==
    /\ [][/\ (HeartbeatPongLatch # 0
              /\ \E sendOk \in BOOLEAN : SendHeartbeatAndWait(sendOk))
             => /\ out' = <<>>
                /\ UNCHANGED <<HeartbeatPongLatch, timer, pings, latch>>
                /\ waiting' = [waiting EXCEPT
                      ![HeartbeatPongLatch]["SendHeartbeatAndWait"] = @ + 1]
          /\ (mu.who = "SendHeartbeatAndWait"
              /\ \E pubOk \in BOOLEAN : Resume(pubOk))
             => last' = Call("SendHeartbeatAndWait", FALSE,
                             latch[mu.latch].value)
          /\ \A l \in Latches :
                (latch[l].triggered /\ timer'[l] # "none")
                    => latch'[l].value = latch[l].value
         ]_commVars
    /\ [](\A l \in Latches :
            /\ (timer[l] # "none") <=> (pings[l] = 1)
            /\ (timer[l] = "none") <=> (pings[l] = 0)
            /\ (timer[l] # "none" /\ ~latch[l].triggered)
                   => /\ l = HeartbeatPongLatch
                      /\ timer[l] = "sleeping")

\* C2 witness: two calls wait on one latch and the first of them returns
C2_Witness ==
    /\ mu.who = "SendHeartbeatAndWait"
    /\ waiting[mu.latch]["SendHeartbeatAndWait"] >= 1
    /\ pings[mu.latch] = 1

----------------------------------------------------------------------------
(* Properties of the channel's fields.                                     *)

\* C4: in every reachable state, Opened implies CommId # "".
C4_OpenedHasCommId == Opened => CommId # ""

\* C5 as stated: two InstallJavascript calls made one after the other, both
\* with activity at most HeartbeatRequestThreshold old, publish the
\* javascript at most once in total.
C5_AtMostOnePublish ==
    Len(installs) = 2 => installs[1].npub + installs[2].npub <= 1

\* C5 amended: of two such calls the second publishes only when the first
\* one published and returned the publish error, so that at most one of
\* their publishes succeeds; no step but a call changes IsWebSocketInstalled
\* or makes the activity more recent.
C5_SecondPublishOnlyAfterFailure ==
    /\ [](Len(installs) = 2 =>
            /\ installs[2].npub = 1
                   => installs[1].npub = 1 /\ installs[1].err
            /\ ~(/\ installs[1].npub = 1 /\ ~installs[1].err
                 /\ installs[2].npub = 1 /\ ~installs[2].err))
    /\ [][/\ (installs' # <<>> /\ installs' # installs) =>
                /\ last'.op = "InstallJavascript"
                /\ ActivityWithinOneSecond
                /\ installs'[Len(installs')].npub = Len(out')
                /\ installs'[Len(installs')].err = last'.err
                /\ IsWebSocketInstalled' = ~last'.err
          /\ (last'.op = "none") =>
                /\ IsWebSocketInstalled' = IsWebSocketInstalled
                /\ sinceLastMsgTime' >= sinceLastMsgTime
         ]_commVars

\* C5 witness: the first call published, a second passed, and the second
\* call, at exactly the threshold, published nothing
C5_Witness ==
    /\ Len(installs) = 2
    /\ installs[1] = [err |-> FALSE, npub |-> 1]
    /\ installs[2] = [err |-> FALSE, npub |-> 0]
    /\ sinceLastMsgTime = HeartbeatRequestThreshold

\* C6: a HandleOpen whose content is no object, or whose target_name is
\* absent, no string or not "gonb_comm", returns no error, changes no field
\* of the channel (nor a latch, a waiter or the mutex) and sends nothing.
C6_UnmatchedOpenIgnored ==
    [][(last'.op = "HandleOpen" /\ ~last'.match)
          => /\ UNCHANGED <<commFields, mu, latch, timer, waiting, pings>>
             /\ out' = <<>>
             /\ ~last'.err
      ]_commVars

\* C6 witness: a comm_open was ignored for its target_name while the channel
\* was open and a probe was outstanding
C6_Witness ==
    /\ last = Ignored("HandleOpen", "target_name")
    /\ Opened
    /\ IsWebSocketInstalled
    /\ HeartbeatPongLatch # 0

\* C7: a HandleMsg whose comm_id differs from s.CommId returns no error and
\* changes nothing, whatever else it carries: the activity is not stamped and
\* an unresolved probe stays unresolved; a heartbeat message with s.CommId
\* handled next resolves the probe to true.
C7_OtherCommIgnored ==
    [][/\ (last'.op = "HandleMsg" /\ ~last'.match)
             => /\ UNCHANGED <<commFields, mu, latch, timer, waiting, pings>>
                /\ out' = <<>>
                /\ ~last'.err
       /\ (/\ last = Ignored("HandleMsg", "comm_id")
           /\ HeartbeatPongLatch # 0
           /\ ~latch[HeartbeatPongLatch].triggered
           /\ HandleMsg(TRUE, CommId, "map", HeartbeatPongAddress))
             => latch'[HeartbeatPongLatch] = Resolved(TRUE)
      ]_commVars

\* C7 witness: a message was ignored for its comm_id while a probe was
\* unresolved and the last activity was not recent
C7_Witness ==
    /\ last = Ignored("HandleMsg", "comm_id")
    /\ HeartbeatPongLatch # 0
    /\ ~latch[HeartbeatPongLatch].triggered
    /\ sinceLastMsgTime = Stale
    /\ CommId = "a"

\* C8: every goroutine that waits on a latch returns; a probe resolves to
\* true only in a step that handles a message, so without one every call
\* returns false; s.HeartbeatPongLatch is set only while a goroutine is still
\* inside sendHeartbeatPingLocked for that latch.
C8_TimeoutReturnsFalseAndClears ==
    /\ \A l \in Latches : (Waiters(l) > 0) ~> (Waiters(l) = 0)
    /\ (mu # NoOne) ~> (mu = NoOne)
    /\ [][/\ \A l \in Latches :
               (~latch[l].triggered /\ latch'[l].triggered /\ latch'[l].value)
                   => last'.op = "HandleMsg"
          /\ (mu.who = "SendHeartbeatAndWait" /\ mu' = NoOne)
                   => last' = Call("SendHeartbeatAndWait", FALSE,
                                   latch[mu.latch].value)
         ]_commVars
    /\ [](HeartbeatPongLatch # 0 =>
             \/ Waiters(HeartbeatPongLatch) > 0
             \/ mu.latch = HeartbeatPongLatch)

\* C8 witness: SendHeartbeatAndWait returned false and no latch is set
C8_Witness ==
    /\ last = Call("SendHeartbeatAndWait", FALSE, FALSE)
    /\ HeartbeatPongLatch = 0
    /\ \A l \in Latches : Waiters(l) = 0

----------------------------------------------------------------------------
(* Properties of the named-pipe bridge.                                    *)

\* no process has opened the FIFO for writing so far
NoWriterYet == child = "idle" /\ w = "none"

\* the removals that found the file
Effective == {i \in DOMAIN removes : removes[i].effective}

\* C3 as stated: once doneChan is closed with no writer attached so far, the
\* reader goroutine gets out of os.Open and the FIFO is removed at some
\* point, by exactly one removal that takes effect.
C3_DoneBeforeWriterRemovesFifo ==
    /\ (doneChan /\ NoWriterYet)
           ~> (reader \notin {"start", "open"} /\ ~fifo
               /\ Cardinality(Effective) = 1)
    /\ [](Cardinality(Effective) <= 1)

\* C9 as stated: the FIFO is removed by one os.Remove, made after the decode
\* loop returned and doneChan was closed; there is no removal while the loop
\* runs and no second one.
C9_RemovedOnceAfterLoopAndDone ==
    /\ Len(removes) <= 1
    /\ \A i \in DOMAIN removes : removes[i].loopEnded /\ removes[i].done

\* C9 amended: every os.Remove of the FIFO is made after doneChan was
\* closed, the reader goroutine's after it closed exec.pipeReader; each of
\* the two goroutines calls it at most once, the first call removes the file
\* and the second finds none.  The decode loop may still run then.
C9_RemovalsAfterDone ==
    /\ Len(removes) <= 2
    /\ \A i \in DOMAIN removes :
          /\ removes[i].done
          /\ removes[i].effective = (i = 1)
          /\ removes[i].by = "reader" => pipeReader = "closed"
    /\ Len(removes) = 2 => removes[1].by # removes[2].by
    /\ fifo = (removes = <<>>)

\* C9 witness: both goroutines called os.Remove, the first while the decode
\* loop had not returned
C9_Witness ==
    /\ Len(removes) = 2
    /\ ~removes[1].loopEnded
    /\ removes[1].by = "reader"
    /\ nread < Len(written)

\* the call dispatchDisplayData is to make for a record
ExpectedCall(rec) ==
    IF rec.DisplayID = "" THEN "PublishData" ELSE "PublishUpdateDisplayData"

\* C10: when the program wrote display records only and the decode loop
\* returned on io.EOF, the loop made one display call for each record, in
\* the order written (PublishUpdateDisplayData with the record's DisplayID
\* when it is not empty, PublishData otherwise), reportCellError was not
\* called, and the loop makes no call after it returned.
C10_DisplayStreamDispatched ==
    /\ []((poll = "eof" /\ \A i \in DOMAIN written :
                               written[i] \in DisplayRecords)
            => /\ nread = Len(written)
               /\ Len(dispatched) = Len(written)
               /\ \A i \in DOMAIN written :
                     /\ dispatched[i].call = ExpectedCall(written[i])
                     /\ dispatched[i].DisplayID = written[i].DisplayID
               /\ reported = 0)
    /\ [][LoopEnded => UNCHANGED <<poll, nread, dispatched, reported>>]_vars

\* C10 witness: the loop returned on io.EOF after MaxRecords display records,
\* one with a DisplayID and one without, and one publish failed
C10_Witness ==
    /\ poll = "eof"
    /\ Len(written) = MaxRecords
    /\ written[1] = Display("id")
    /\ written[2] = Display("")
    /\ Len(dispatched) = MaxRecords
    /\ ~dispatched[1].ok

----------------------------------------------------------------------------
(* Properties of Close and of a comm_open that replaces a channel.         *)

\* C11: Close on an open channel sends exactly one comm_close, with the
\* CommId stored before the call, and leaves CommId = "", Opened = FALSE and
\* IsWebSocketInstalled = FALSE, also when the send fails (the error is then
\* returned); Close on a channel that is not open sends nothing, returns no
\* error and changes nothing.
C11_CloseClearsChannel ==
    [][(last'.op = "Close") =>
          /\ UNCHANGED <<TransientDisplayId, sinceLastMsgTime,
                         HeartbeatPongLatch, mu, latch, timer, waiting,
                         pings>>
          /\ IF Opened
             THEN /\ out' = <<Sent("comm_close", CommId, "", 0)>>
                  /\ CommId' = ""
                  /\ ~Opened'
                  /\ ~IsWebSocketInstalled'
             ELSE /\ out' = <<>>
                  /\ ~last'.err
                  /\ UNCHANGED <<CommId, Opened, IsWebSocketInstalled>>
      ]_commVars

\* C11 witness: a Close of an open channel failed to send its comm_close
\* and the three fields are cleared
C11_Witness ==
    /\ last = Call("Close", TRUE, FALSE)
    /\ Len(out) = 1
    /\ out[1].type = "comm_close"
    /\ out[1].comm_id = "a"
    /\ CommId = ""
    /\ ~Opened
    /\ ~IsWebSocketInstalled

\* C12: a comm_open for "gonb_comm" with a comm_id, handled while a channel
\* is open, first sends a comm_close with the old CommId; when that send
\* fails the new channel is not accepted; when the new channel is accepted,
\* Opened is TRUE, CommId is the comm_id of the message, the activity is
\* stamped, and the comm_open_ack, sent after the comm_close, carries the
\* comm_id of the message.
C12_ReplacingOpenClosesFirst ==
    [][(Opened /\ last'.op = "HandleOpen" /\ last'.match
        /\ last'.ignored = "") =>
          /\ Len(out') >= 1
          /\ out'[1] = Sent("comm_close", CommId, "", 0)
          /\ IF last'.accepted = Absent
             THEN /\ Len(out') = 1
                  /\ last'.err
                  /\ ~Opened'
                  /\ CommId' = ""
             ELSE /\ Opened'
                  /\ CommId' = last'.accepted
                  /\ sinceLastMsgTime' = 0
                  /\ Len(out') = 3
                  /\ out'[3] = Sent("comm_msg", last'.accepted,
                                    "comm_open_ack", 0)
                  /\ \A k \in 2..3 : out'[k].type # "comm_close"
      ]_commVars

\* C12 witness: the channel "a" was open and installed when a comm_open for
\* "b" was accepted
C12_Witness ==
    /\ last.op = "HandleOpen"
    /\ last.accepted = "b"
    /\ Len(out) = 3
    /\ out[1] = Sent("comm_close", "a", "", 0)
    /\ out[3] = Sent("comm_msg", "b", "comm_open_ack", 0)
    /\ CommId = "b"
    /\ Opened
    /\ sinceLastMsgTime = 0

----------------------------------------------------------------------------
(* Properties of InstallJavascript and of the mutex around the wait.       *)

\* an InstallJavascript call starts in this step
InstallJavascriptStep ==
    \E pubOk, sendOk \in BOOLEAN : InstallJavascript(pubOk, sendOk)

\* the fields of the channel but the latch
channelFields ==
    <<IsWebSocketInstalled, TransientDisplayId, Opened, CommId,
      sinceLastMsgTime>>

C14_WaitsWithoutMutex ==
    /\ [][/\ (last'.op = "wait") => mu = NoOne /\ mu' = NoOne
          /\ (mu' # NoOne /\ mu' # mu) =>
                /\ mu = NoOne
                /\ waiting[mu'.latch][mu'.who] > 0
                /\ waiting' = [waiting EXCEPT ![mu'.latch][mu'.who] = @ - 1]
          /\ (mu # NoOne /\ (mu' # mu \/ last'.op # "none")) =>
                /\ mu' = NoOne
                /\ last'.op = mu.who
                /\ UNCHANGED waiting
          /\ (last'.op \in Callers /\ mu = NoOne /\ last'.err
              /\ out' # <<>> /\ out'[1].data = HeartbeatPingAddress) =>
                /\ mu' = NoOne
                /\ UNCHANGED <<waiting, HeartbeatPongLatch, latch, timer>>
          /\ (HeartbeatPongLatch # 0 /\ Waiters(HeartbeatPongLatch) > 0
              /\ last'.op = "HandleMsg" /\ HeartbeatMsgStep) =>
                /\ mu = NoOne
                /\ latch'[HeartbeatPongLatch].triggered
                /\ UNCHANGED <<mu, waiting>>
         ]_commVars
    /\ [](\A l \in Latches :
             (Waiters(l) > 0 /\ ~latch[l].triggered /\ mu # NoOne)
                 => mu.latch # l)

\* C14 witness: a heartbeat message resolved the latch to true while two
\* goroutines were waiting on it, before its timer fired
C14_Witness ==
    /\ last.op = "HandleMsg"
    /\ HeartbeatPongLatch # 0
    /\ Waiters(HeartbeatPongLatch) = MaxWaiters
    /\ latch[HeartbeatPongLatch] = Resolved(TRUE)
    /\ timer[HeartbeatPongLatch] = "sleeping"
    /\ mu = NoOne

----------------------------------------------------------------------------
(* Properties of muFifo and of an execution that is over early.            *)

\* C15 as stated: muFifo is held only around the test or the assignment of
\* fifoOpenedForReading: no goroutine holds it while it is blocked in an
\* open of the FIFO or while it waits for doneChan.
C15_FifoMutexNotHeldWhileBlocked ==
    /\ muFifo = "cleanup" => cleanup \notin {"openW", "closeW"}
    /\ muFifo = "reader" => reader # "waitDone"

\* C16 as stated: when the execution is over (isDone set, doneChan closed)
\* before the reader goroutine starts, the reader goroutine ends without an
\* os.Open, and no goroutine stays blocked: the cleanup goroutine ends too
\* and the FIFO is removed.
C16_EarlyDoneEndsBothGoroutines ==
    /\ [][(reader = "start" /\ isDone /\ ~raced /\ reader' # reader)
             => reader' = "end" /\ pipeReader' = "nil" /\ poll' = "none"
         ]_pipeVars
    /\ (reader = "start" /\ isDone /\ doneChan /\ ~raced)
           ~> (reader = "end" /\ cleanup = "end" /\ ~fifo
               /\ muFifo = "free")

----------------------------------------------------------------------------
(* Properties of the errors and of the activity stamp.                     *)

\* C17 as stated: a HandleMsg whose comm_id is s.CommId and whose content
\* has no data.address returns no error, sends nothing and changes no state:
\* the activity is not stamped.
C17_UnaddressedMsgChangesNothing ==
    [][(last'.op = "HandleMsg" /\ last'.ignored = "address") =>
          /\ ~last'.err
          /\ out' = <<>>
          /\ UNCHANGED <<commFields, mu, latch, timer, waiting, pings>>
      ]_commVars

PublishesJavascript(msgs) ==
    \E k \in 1..Len(msgs) : msgs[k].type = "bootstrap"

\* C19 as stated: a publish that fails is logged and no more: a failing
\* publish of the javascript makes InstallJavascript return no error, and a
\* failing publish that erases the transient display makes HandleOpen return
\* no error.  (The third publish, of dispatchDisplayData, is in the decode
\* loop: C10.)
C19_PublishFailuresNotReturned ==
    [][/\ (last'.op = "InstallJavascript" /\ PublishesJavascript(out'))
              => ~last'.err
       /\ (last'.op = "HandleOpen" /\ last'.err) =>
              \A i \in OpenInputs :
                  HandleOpen(i[1], i[2], i[3], i[4], i[5], i[6])
                      => ~i[4] \/ ~i[6]
      ]_commVars

\* C20: s.HeartbeatPongLatch is cleared only in the step in which a
\* goroutine that waited on that very latch returns, and then the latch is
\* resolved; a goroutine that waited on another latch leaves
\* s.HeartbeatPongLatch as it is; so that an unresolved latch that is set
\* stays set.
C20_ClearsOnlyOwnLatch ==
    /\ [][/\ (HeartbeatPongLatch # 0 /\ HeartbeatPongLatch' # HeartbeatPongLatch)
               => /\ mu # NoOne
                  /\ mu.latch = HeartbeatPongLatch
                  /\ latch[HeartbeatPongLatch].triggered
                  /\ HeartbeatPongLatch' = 0
          /\ (mu # NoOne /\ mu' = NoOne) =>
                HeartbeatPongLatch' = IF HeartbeatPongLatch = mu.latch
                                      THEN 0 ELSE HeartbeatPongLatch
          /\ (HeartbeatPongLatch # 0 /\ ~latch[HeartbeatPongLatch].triggered
              /\ last'.op # "HandleMsg" /\ timer' = timer)
               => UNCHANGED HeartbeatPongLatch
         ]_commVars
    /\ [](HeartbeatPongLatch # 0 => timer[HeartbeatPongLatch] # "none")

\* C20 witness: a goroutine that waited on a latch of an earlier call has
\* returned while the latch of a later call is set and unresolved, with its
\* waiter still blocked
C20_Witness ==
    /\ last = Call("SendHeartbeatAndWait", FALSE, FALSE)
    /\ mu = NoOne
    /\ HeartbeatPongLatch # 0
    /\ ~latch[HeartbeatPongLatch].triggered
    /\ Waiters(HeartbeatPongLatch) = 1

----------------------------------------------------------------------------
(* The reset of InstallJavascript and a channel opened during its wait.    *)

\* the comm_close of channel cid is among the messages
ClosesChannel(msgs, cid) ==
    \E k \in 1..Len(msgs) : msgs[k] = Sent("comm_close", cid, "", 0)

\* C21 as stated: when a comm_open was accepted while an InstallJavascript
\* call was in its heartbeat wait, and the probe resolves to false, the
\* channel that was accepted is still open, under its comm_id, when the call
\* returns; and no step clears a channel accepted during the wait without
\* sending a comm_close for it.
C21_ResetKeepsNewChannel ==
    [][/\ (/\ mu.who = "InstallJavascript" /\ mu' = NoOne
           /\ ~mu.heartbeat
           /\ probe.reopened /\ ~probe.shared /\ Opened) =>
              Opened' /\ CommId' = CommId
       /\ (probe.reopened /\ ~probe.shared /\ Opened /\ ~Opened') =>
              ClosesChannel(out', CommId)
      ]_vars

====
